---- MODULE Spec2Model ----
(***************************************************************************)
(* Merkle Sum Tree (src/src/lib.rs): leafs, nodes (flat, level-major),     *)
(* height and zero_index, with new / push / set_leaf / remove as actions   *)
(* and get_proof / verify_proof / accessors as operators on the tree.      *)
(*                                                                         *)
(* Indices are 0-based as in the source; At / SetAt translate to the       *)
(* 1-based sequences of TLA+.                                              *)
(*                                                                         *)
(* The MiMC parent hash is treated as collision-free: the digest of        *)
(* multi_hash(arr, 0, 1) is represented by the term of the absorbed        *)
(* elements, and the digest of a leaf id by the term of the id.            *)
(***************************************************************************)
EXTENDS Integers, Sequences, FiniteSets, TLC

VARIABLES leafs, nodes, height, zero_index, built, panicked, ops, last, pre, trip,
          undo, fn

vars ==
  <<leafs, nodes, height, zero_index, built, panicked, ops, last, pre, trip, undo,
    fn>>

(* ------------------------------ bounds -------------------------------- *)

\* longest leaf list handed to new()
MaxInitLen == 4

\* largest number of leafs a modelled tree may hold
MaxLeafs == 4

\* number of push / set_leaf / remove calls made on one tree
MaxOps == 4

\* the prime field Fr scaled down: the modulus of the modelled field
\* (x -> x^5 permutes the field when 5 does not divide the modulus - 1)
ScaledModulus == 7

\* longest table of round constants (the source's table has 220 entries)
MaxRounds == 3

\* longest array absorbed by multi_hash (build_parent absorbs 4 elements)
MaxAbsorbed == 2

\* largest num_outputs asked of multi_hash (build_parent asks for 1)
MaxOutputs == 2

(* ----------------------------- constants ------------------------------ *)

I32_MAX == 2147483647

I32_MIN == -I32_MAX - 1

MAX_HEIGHT == 64

(* ------------------------------ helpers ------------------------------- *)

At(s, i) ==
  s[i + 1]

SetAt(s, i, v) ==
  [s EXCEPT ![i + 1] = v]

InsertAt(s, pos, v) ==
  SubSeq(s, 1, pos) \o <<v>> \o SubSeq(s, pos + 1, Len(s))

RemoveAt(s, pos) ==
  SubSeq(s, 1, pos) \o SubSeq(s, pos + 2, Len(s))

MinOf(S) ==
  CHOOSE x \in S : \A y \in S : x <= y

(* --------------------------- Node and Leaf ---------------------------- *)

Node(hash, value) ==
  [hash |-> hash, value |-> value]

\* DefaultHasher digest of the id, lifted by Fr::from_u128
id_hash(id) ==
  <<id>>

LeafNew(id, value) ==
  [id |-> id, node |-> Node(id_hash(id), value)]

is_none(leaf) ==
  leaf.id = "0" /\ leaf.node.value = 0

\* is_equal that forgets to compare the sums
is_equal_hash_only(a, b) ==
  a.hash = b.hash

is_equal(a, b) ==
  a.hash = b.hash /\ a.value = b.value

empty_leaf ==
  LeafNew("0", 0)

NoNode ==
  Node(<<>>, 0)

(* ---------------------------- build_parent ---------------------------- *)

\* the addition without the check: the sum modulo 2^32
checked_add_wrapping(a, b) ==
  IF b > 0 /\ a > I32_MAX - b
    THEN [ok |-> TRUE, v |-> (a - I32_MAX - 1) + (b - I32_MAX - 1)]
  ELSE IF b < 0 /\ a < I32_MIN - b
    THEN [ok |-> TRUE, v |-> (a + I32_MAX + 1) + (b + I32_MAX + 1)]
  ELSE [ok |-> TRUE, v |-> a + b]

\* i32::checked_add
checked_add(a, b) ==
  IF (b > 0 /\ a > I32_MAX - b) \/ (b < 0 /\ a < I32_MIN - b)
    THEN [ok |-> FALSE, v |-> 0]
    ELSE [ok |-> TRUE, v |-> a + b]

\* Fr::from_str_vartime(&value.to_string()): the decimal form of a negative
\* value starts with '-', which the parser rejects
value_to_fr(value) ==
  IF value < 0
    THEN [ok |-> FALSE, fr |-> 0]
    ELSE [ok |-> TRUE, fr |-> value]

\* MimcSponge::multi_hash(arr, 0, 1)[0], collision-free
multi_hash_1(arr) ==
  arr

build_parent(child_1, child_2) ==
  LET sum == checked_add(child_1.value, child_2.value)
      child_1_value_fr == value_to_fr(child_1.value)
      child_2_value_fr == value_to_fr(child_2.value)
  IN  IF ~sum.ok THEN [res |-> "OverflowError", node |-> NoNode]
      ELSE IF ~child_1_value_fr.ok THEN [res |-> "HashError", node |-> NoNode]
      ELSE IF ~child_2_value_fr.ok THEN [res |-> "HashError", node |-> NoNode]
      ELSE [res |-> "ok",
            node |-> Node(multi_hash_1(<<child_1.hash, child_1_value_fr.fr,
                                         child_2.hash, child_2_value_fr.fr>>),
                          sum.v)]

(* ------------------------- tree construction -------------------------- *)

MkTree(ls, ns, h, zi) ==
  [leafs |-> ls, nodes |-> ns, height |-> h, zero_index |-> zi]

NoTree ==
  MkTree(<<>>, <<>>, 0, <<>>)

\* the while loop of fill_leafs: the smallest power of two >= len, and the height
RECURSIVE fill_power(_, _, _)
fill_power(power, h, len) ==
  IF power < len
    THEN IF h + 1 > MAX_HEIGHT
           THEN [res |-> "InvalidTree", power |-> power, height |-> h]
           ELSE fill_power(2 * power, h + 1, len)
    ELSE [res |-> "ok", power |-> power, height |-> h]

fill_leafs(ls) ==
  IF ls = <<>>
    THEN [res |-> "InvalidLeaf", leafs |-> ls, height |-> 0, zero_index |-> <<>>]
    ELSE LET p == fill_power(1, 1, Len(ls))
             fill_count == p.power - Len(ls)
         IN  IF p.res # "ok"
               THEN [res |-> p.res, leafs |-> ls, height |-> 0, zero_index |-> <<>>]
               ELSE [res |-> "ok",
                     leafs |-> ls \o [k \in 1..fill_count |-> empty_leaf],
                     height |-> p.height,
                     zero_index |-> [k \in 1..fill_count |-> Len(ls) + k - 1]]

\* the enumerate loop of create_tree: the positions i with leafs[i].is_none()
zero_scan(ls) ==
  SelectSeq([k \in 1..Len(ls) |-> k - 1], LAMBDA i : is_none(At(ls, i)))

\* the level loop of create_tree; an error of build_parent ends it
RECURSIVE build_levels(_, _)
build_levels(ns, nodes_to_hash) ==
  IF Len(nodes_to_hash) <= 1
    THEN [res |-> "ok", nodes |-> ns]
    ELSE LET pairs == (Len(nodes_to_hash) + 1) \div 2
             parents == [k \in 1..pairs |->
                           IF 2 * k > Len(nodes_to_hash)
                             THEN [res |-> "panic", node |-> NoNode]
                             ELSE build_parent(nodes_to_hash[2 * k - 1],
                                               nodes_to_hash[2 * k])]
             bad == {k \in 1..pairs : parents[k].res # "ok"}
             level == [k \in 1..pairs |-> parents[k].node]
         IN  IF bad # {}
               THEN [res |-> parents[MinOf(bad)].res, nodes |-> ns]
               ELSE build_levels(ns \o level, level)

\* create_tree that leaves the empty list to fill_leafs
create_tree_no_empty_check(ls) ==
  LET f == fill_leafs(ls)
      leaf_nodes == [k \in 1..Len(f.leafs) |-> f.leafs[k].node]
      b == build_levels(leaf_nodes, leaf_nodes)
  IN  IF f.res # "ok" THEN [res |-> f.res, tree |-> NoTree]
      ELSE IF b.res # "ok" THEN [res |-> b.res, tree |-> NoTree]
      ELSE [res |-> "ok",
            tree |-> MkTree(f.leafs, b.nodes, f.height,
                            f.zero_index \o zero_scan(f.leafs))]

create_tree(ls) ==
  IF ls = <<>>
    THEN [res |-> "InvalidTree", tree |-> NoTree]
    ELSE LET f == fill_leafs(ls)
             leaf_nodes == [k \in 1..Len(f.leafs) |-> f.leafs[k].node]
             b == build_levels(leaf_nodes, leaf_nodes)
         IN  IF f.res # "ok" THEN [res |-> f.res, tree |-> NoTree]
             ELSE IF b.res # "ok" THEN [res |-> b.res, tree |-> NoTree]
             ELSE [res |-> "ok",
                   tree |-> MkTree(f.leafs, b.nodes, f.height,
                                   f.zero_index \o zero_scan(f.leafs))]

(* ----------------------------- accessors ------------------------------ *)

get_node(t, index) ==
  IF index >= Len(t.nodes)
    THEN [res |-> "IndexOutOfBounds", node |-> NoNode]
    ELSE [res |-> "ok", node |-> At(t.nodes, index)]

get_leaf(t, index) ==
  IF index >= Len(t.leafs)
    THEN [res |-> "IndexOutOfBounds", leaf |-> empty_leaf]
    ELSE [res |-> "ok", leaf |-> At(t.leafs, index)]

get_root(t) ==
  IF Len(t.nodes) = 0
    THEN [res |-> "EmptyTree", node |-> NoNode]
    ELSE get_node(t, Len(t.nodes) - 1)

get_root_hash(t) ==
  IF Len(t.nodes) = 0
    THEN [res |-> "EmptyTree", hash |-> <<>>]
    ELSE [res |-> "ok", hash |-> At(t.nodes, Len(t.nodes) - 1).hash]

get_root_sum(t) ==
  IF Len(t.nodes) = 0
    THEN [res |-> "EmptyTree", value |-> 0]
    ELSE [res |-> "ok", value |-> At(t.nodes, Len(t.nodes) - 1).value]

(* ---------------------------- update_path ----------------------------- *)

\* one step of the ascent: the parent of the current node and its sibling,
\* the sibling on the right when the flat index is even
path_parent(current_index, current_node, neighbor) ==
  IF current_index % 2 = 0
    THEN build_parent(current_node, neighbor)
    ELSE build_parent(neighbor, current_node)

\* flat index of the sibling read at one step of the ascent
sibling_index(current_index) ==
  IF current_index % 2 = 0 THEN current_index + 1 ELSE current_index - 1

\* the for loop of update_path, steps iterations left
RECURSIVE update_path_loop(_, _, _, _, _, _, _)
update_path_loop(t, steps, level_size, level_index, current_index, level_start, current_node) ==
  IF steps = 0
    THEN [res |-> "ok", nodes |-> t.nodes]
    ELSE LET neighbor == get_node(t, sibling_index(current_index))
             parent == path_parent(current_index, current_node, neighbor.node)
             next_start == level_start + level_size
             next_level_index == level_index \div 2
             next_index == next_start + next_level_index
         IN  IF neighbor.res # "ok" THEN [res |-> neighbor.res, nodes |-> t.nodes]
             ELSE IF parent.res # "ok" THEN [res |-> parent.res, nodes |-> t.nodes]
             ELSE IF next_index >= Len(t.nodes) THEN [res |-> "panic", nodes |-> t.nodes]
             ELSE update_path_loop(
                    [t EXCEPT !.nodes = SetAt(t.nodes, next_index, parent.node)],
                    steps - 1, level_size \div 2, next_level_index, next_index,
                    next_start, parent.node)

\* update_path that starts from the size of the level above the leaves
update_path_short_level(t, leaf, index) ==
  update_path_loop(t, t.height - 1, IF t.height >= 2 THEN 2 ^ (t.height - 2) ELSE 1,
                   index, index, 0, leaf.node)

update_path(t, leaf, index) ==
  update_path_loop(t, t.height - 1, 2 ^ (t.height - 1), index, index, 0, leaf.node)

(* ------------------------ proofs: get and verify ---------------------- *)

Neighbor(position, node) ==
  [position |-> position, node |-> node]

\* the for loop of get_proof, steps iterations left
RECURSIVE get_proof_loop(_, _, _, _, _, _, _)
get_proof_loop(t, path, steps, level_size, level_index, current_index, level_start) ==
  IF steps = 0
    THEN [res |-> "ok", path |-> path]
    ELSE LET node == get_node(t, sibling_index(current_index))
             position == IF current_index % 2 = 0 THEN "Right" ELSE "Left"
             next_start == level_start + level_size
             next_level_index == level_index \div 2
         IN  IF node.res # "ok" THEN [res |-> node.res, path |-> <<>>]
             ELSE get_proof_loop(t, Append(path, Neighbor(position, node.node)),
                                 steps - 1, level_size \div 2, next_level_index,
                                 next_start + next_level_index, next_start)

NoProof ==
  [leaf |-> empty_leaf, path |-> <<>>]

\* get_proof whose walk takes one step per level, the root's included
get_proof_full_height(t, index) ==
  IF index >= Len(t.leafs)
    THEN [res |-> "IndexOutOfBounds", proof |-> NoProof]
    ELSE LET leaf == get_leaf(t, index)
             walk == get_proof_loop(t, <<>>, t.height, 2 ^ (t.height - 1),
                                    index, index, 0)
         IN  IF leaf.res # "ok" THEN [res |-> leaf.res, proof |-> NoProof]
             ELSE IF walk.res # "ok" THEN [res |-> walk.res, proof |-> NoProof]
             ELSE [res |-> "ok", proof |-> [leaf |-> leaf.leaf, path |-> walk.path]]

get_proof(t, index) ==
  IF index >= Len(t.leafs)
    THEN [res |-> "IndexOutOfBounds", proof |-> NoProof]
    ELSE LET leaf == get_leaf(t, index)
             walk == get_proof_loop(t, <<>>, t.height - 1, 2 ^ (t.height - 1),
                                    index, index, 0)
         IN  IF leaf.res # "ok" THEN [res |-> leaf.res, proof |-> NoProof]
             ELSE IF walk.res # "ok" THEN [res |-> walk.res, proof |-> NoProof]
             ELSE [res |-> "ok", proof |-> [leaf |-> leaf.leaf, path |-> walk.path]]

\* the for loop of verify_proof over the neighbors from position k on
RECURSIVE fold_path(_, _, _)
fold_path(node, path, k) ==
  IF k > Len(path)
    THEN [res |-> "ok", node |-> node]
    ELSE LET step == IF path[k].position = "Right"
                       THEN build_parent(node, path[k].node)
                       ELSE build_parent(path[k].node, node)
         IN  IF step.res # "ok" THEN step ELSE fold_path(step.node, path, k + 1)

\* verify_proof that also looks the proof's leaf up among the tree's leafs
verify_proof_checks_membership(t, proof) ==
  LET folded == fold_path(proof.leaf.node, proof.path, 1)
      root == get_root(t)
  IN  IF folded.res # "ok" THEN [res |-> folded.res, valid |-> FALSE]
      ELSE IF root.res # "ok" THEN [res |-> root.res, valid |-> FALSE]
      ELSE [res |-> "ok",
            valid |-> /\ is_equal(folded.node, root.node)
                      /\ \E k \in DOMAIN t.leafs : t.leafs[k] = proof.leaf]

verify_proof(t, proof) ==
  LET folded == fold_path(proof.leaf.node, proof.path, 1)
      root == get_root(t)
  IN  IF folded.res # "ok" THEN [res |-> folded.res, valid |-> FALSE]
      ELSE IF root.res # "ok" THEN [res |-> root.res, valid |-> FALSE]
      ELSE [res |-> "ok", valid |-> is_equal(folded.node, root.node)]

(* ----------------------- slice::binary_search ------------------------- *)

\* the three-way loop (returns at the first probe that compares Equal)
RECURSIVE bs_three_way(_, _, _, _)
bs_three_way(s, x, left, right) ==
  IF left < right
    THEN LET mid == left + (right - left) \div 2
         IN  IF At(s, mid) < x THEN bs_three_way(s, x, mid + 1, right)
             ELSE IF At(s, mid) > x THEN bs_three_way(s, x, left, mid)
             ELSE [found |-> TRUE, pos |-> mid]
    ELSE [found |-> FALSE, pos |-> left]

\* the halving loop (compares for equality once, at the end)
RECURSIVE bs_halving(_, _, _, _)
bs_halving(s, x, base, size) ==
  IF size > 1
    THEN LET half == size \div 2
             mid == base + half
         IN  bs_halving(s, x, IF At(s, mid) > x THEN base ELSE mid, size - half)
    ELSE IF At(s, base) = x THEN [found |-> TRUE, pos |-> base]
         ELSE [found |-> FALSE, pos |-> base + (IF At(s, base) < x THEN 1 ELSE 0)]

\* binary_search(&index): on a sorted sequence the two loops agree up to the
\* choice among equal elements; on an unsorted one the result is unspecified
\* and either loop's answer may be what the build produces
binary_search(s, x) ==
  IF Len(s) = 0
    THEN {[found |-> FALSE, pos |-> 0]}
    ELSE {bs_three_way(s, x, 0, Len(s)), bs_halving(s, x, 0, Len(s))}

(* ------------------------------ mutation ------------------------------ *)

\* the bookkeeping that pushes a freed index at the end instead of inserting
\* it where binary_search says
zero_index_update_appends(t, leaf, index) ==
  LET current_leaf == At(t.leafs, index)
  IN  IF is_none(leaf) /\ ~is_none(current_leaf)
        THEN {Append(t.zero_index, index)}
      ELSE IF ~is_none(leaf) /\ is_none(current_leaf)
        THEN {IF r.found THEN RemoveAt(t.zero_index, r.pos) ELSE t.zero_index :
                r \in binary_search(t.zero_index, index)}
      ELSE {t.zero_index}

\* the zero_index bookkeeping of set_leaf: the sequences it may leave
zero_index_update(t, leaf, index) ==
  LET current_leaf == At(t.leafs, index)
  IN  IF is_none(leaf) /\ ~is_none(current_leaf)
        THEN {InsertAt(t.zero_index, r.pos, index) :
                r \in binary_search(t.zero_index, index)}
      ELSE IF ~is_none(leaf) /\ is_none(current_leaf)
        THEN {IF r.found THEN RemoveAt(t.zero_index, r.pos) ELSE t.zero_index :
                r \in binary_search(t.zero_index, index)}
      ELSE {t.zero_index}

\* set_leaf that checks the index against nodes, so that an index between
\* the two lengths reaches self.leafs[index] and aborts
set_leaf_checks_nodes(t, leaf, index) ==
  IF index >= Len(t.nodes)
    THEN {[res |-> "IndexOutOfBounds", tree |-> t]}
    ELSE IF index >= Len(t.leafs)
      THEN {[res |-> "panic", tree |-> t]}
      ELSE {LET t1 == [t EXCEPT !.zero_index = zi,
                                !.leafs = SetAt(t.leafs, index, leaf)]
                t2 == [t1 EXCEPT !.nodes = SetAt(t.nodes, index, leaf.node)]
                u == update_path(t2, leaf, index)
            IN  [res |-> u.res, tree |-> [t2 EXCEPT !.nodes = u.nodes]] :
              zi \in zero_index_update(t, leaf, index)}

\* the outcomes of set_leaf: result and the tree it leaves behind
set_leaf(t, leaf, index) ==
  IF index >= Len(t.leafs)
    THEN {[res |-> "IndexOutOfBounds", tree |-> t]}
    ELSE {LET t1 == [t EXCEPT !.zero_index = zi,
                              !.leafs = SetAt(t.leafs, index, leaf)]
              t2 == [t1 EXCEPT !.nodes = SetAt(t.nodes, index, leaf.node)]
              u == update_path(t2, leaf, index)
          IN  IF index >= Len(t.nodes)
                THEN [res |-> "panic", tree |-> t1]
                ELSE [res |-> u.res, tree |-> [t2 EXCEPT !.nodes = u.nodes]] :
            zi \in zero_index_update(t, leaf, index)}

update_tree(t, tree) ==
  MkTree(tree.leafs, tree.nodes, tree.height, tree.zero_index)

\* push that returns the number of leafs after the append
push_returns_new_length(t, leaf) ==
  IF Len(t.zero_index) = 0
    THEN LET t1 == [t EXCEPT !.leafs = Append(t.leafs, leaf)]
             index_value == Len(t1.leafs)
             new_tree == create_tree(t1.leafs)
         IN  IF new_tree.res # "ok"
               THEN {[res |-> new_tree.res, tree |-> t1, ret |-> 0]}
               ELSE {[res |-> "ok", tree |-> update_tree(t1, new_tree.tree),
                      ret |-> index_value]}
    ELSE LET index_value == At(t.zero_index, 0)
         IN  {[res |-> o.res, tree |-> o.tree,
               ret |-> IF o.res = "ok" THEN index_value ELSE 0] :
                o \in set_leaf(t, leaf, index_value)}

\* the outcomes of push: result, the tree it leaves behind, the returned index
push(t, leaf) ==
  IF Len(t.zero_index) = 0
    THEN LET index_value == Len(t.leafs)
             t1 == [t EXCEPT !.leafs = Append(t.leafs, leaf)]
             new_tree == create_tree(t1.leafs)
         IN  IF new_tree.res # "ok"
               THEN {[res |-> new_tree.res, tree |-> t1, ret |-> 0]}
               ELSE {[res |-> "ok", tree |-> update_tree(t1, new_tree.tree),
                      ret |-> index_value]}
    ELSE LET index_value == At(t.zero_index, 0)
         IN  {[res |-> o.res, tree |-> o.tree,
               ret |-> IF o.res = "ok" THEN index_value ELSE 0] :
                o \in set_leaf(t, leaf, index_value)}

\* remove that takes the leaf out of the vector and rebuilds
remove_drops_leaf(t, index) ==
  IF index >= Len(t.leafs)
    THEN {[res |-> "IndexOutOfBounds", tree |-> t]}
    ELSE LET new_tree == create_tree(RemoveAt(t.leafs, index))
         IN  IF new_tree.res # "ok"
               THEN {[res |-> new_tree.res, tree |-> t]}
               ELSE {[res |-> "ok", tree |-> update_tree(t, new_tree.tree)]}

remove(t, index) ==
  IF index >= Len(t.leafs)
    THEN {[res |-> "IndexOutOfBounds", tree |-> t]}
    ELSE set_leaf(t, empty_leaf, index)

(* --------------------------- state machine ---------------------------- *)

\* the leaves handed to new(): the zero-leaf, a small value, the largest i32
\* (overflows any non-zero sum) and a negative value (cannot be lifted into Fr)
LeafUniverse ==
  {LeafNew("0", 0), LeafNew("u1", 1), LeafNew("u2", I32_MAX), LeafNew("u3", -1)}

\* the leaves handed to push() and set_leaf()
UpdateLeafs ==
  {LeafNew("0", 0), LeafNew("u1", 1), LeafNew("u2", I32_MAX)}

InitInputs ==
  {ls \in UNION {[1..n -> LeafUniverse] : n \in 0..MaxInitLen} :
     fill_power(1, 1, Len(ls)).power <= MaxLeafs}

Tree ==
  MkTree(leafs, nodes, height, zero_index)

Call(op, input, leaf, index, res, ret) ==
  [op |-> op, input |-> input, leaf |-> leaf, index |-> index, res |-> res,
   ret |-> ret]

\* what a caller keeps to undo a remove: the index, the leaf that was there
\* and the root before the call
NoTrip ==
  [stage |-> "none", index |-> 0, leaf |-> empty_leaf, root |-> get_root(NoTree)]

\* what a caller keeps to undo a push: the returned index and the tree before
\* the push
NoUndo ==
  [stage |-> "none", index |-> 0, tree |-> NoTree]

\* the tree stays within the modelled sizes
Fits(t) ==
  Len(t.leafs) <= MaxLeafs

Install(t) ==
  /\ leafs' = t.leafs
  /\ nodes' = t.nodes
  /\ height' = t.height
  /\ zero_index' = t.zero_index

\* a call of a function that reads no tree: its name, arguments and result
FnCall(op, args, out) ==
  [op |-> op, args |-> args, out |-> out]

NoFn ==
  FnCall("none", <<>>, <<>>)

Init ==
  /\ leafs = <<>>
  /\ nodes = <<>>
  /\ height = 0
  /\ zero_index = <<>>
  /\ built = FALSE
  /\ panicked = FALSE
  /\ ops = 0
  /\ last = Call("none", <<>>, empty_leaf, 0, "ok", 0)
  /\ pre = NoTree
  /\ trip = NoTrip
  /\ undo = NoUndo
  /\ fn = NoFn

New(ls) ==
  /\ last.op = "none"
  /\ LET r == create_tree(ls)
     IN  /\ Install(IF r.res = "ok" THEN r.tree ELSE Tree)
         /\ built' = (r.res = "ok")
         /\ panicked' = (r.res = "panic")
         /\ last' = Call("new", ls, empty_leaf, 0, r.res, 0)
  /\ pre' = Tree
  /\ UNCHANGED <<ops, trip, undo, fn>>

Push(leaf) ==
  /\ built
  /\ ~panicked
  /\ ops < MaxOps
  /\ \E o \in push(Tree, leaf) :
       /\ Fits(o.tree)
       /\ Install(o.tree)
       /\ panicked' = (o.res = "panic")
       /\ last' = Call("push", <<>>, leaf, 0, o.res, o.ret)
       /\ undo' = IF o.res = "ok"
                   THEN [stage |-> "pushed", index |-> o.ret, tree |-> Tree]
                   ELSE NoUndo
  /\ trip' = NoTrip
  /\ pre' = Tree
  /\ ops' = ops + 1
  /\ UNCHANGED <<built, fn>>

SetLeaf(leaf, index) ==
  /\ built
  /\ ~panicked
  /\ ops < MaxOps
  /\ \E o \in set_leaf(Tree, leaf, index) :
       /\ Fits(o.tree)
       /\ Install(o.tree)
       /\ panicked' = (o.res = "panic")
       /\ last' = Call("set_leaf", <<>>, leaf, index, o.res, 0)
  /\ trip' = IF trip.stage = "removed" /\ trip.index = index /\ trip.leaf = leaf
              THEN [trip EXCEPT !.stage = "restored"]
              ELSE NoTrip
  /\ undo' = NoUndo
  /\ pre' = Tree
  /\ ops' = ops + 1
  /\ UNCHANGED <<built, fn>>

Remove(index) ==
  /\ built
  /\ ~panicked
  /\ ops < MaxOps
  /\ \E o \in remove(Tree, index) :
       /\ Fits(o.tree)
       /\ Install(o.tree)
       /\ panicked' = (o.res = "panic")
       /\ last' = Call("remove", <<>>, empty_leaf, index, o.res, 0)
       /\ trip' = IF o.res = "ok"
                   THEN [stage |-> "removed", index |-> index,
                         leaf |-> At(leafs, index), root |-> get_root(Tree)]
                   ELSE NoTrip
       /\ undo' = IF o.res = "ok" /\ undo.stage = "pushed" /\ undo.index = index
                   THEN [undo EXCEPT !.stage = "removed"]
                   ELSE NoUndo
  /\ pre' = Tree
  /\ ops' = ops + 1
  /\ UNCHANGED <<built, fn>>

Next ==
  \/ \E ls \in InitInputs : New(ls)
  \/ \E leaf \in UpdateLeafs : Push(leaf)
  \/ \E leaf \in UpdateLeafs, index \in 0..Len(leafs) : SetLeaf(leaf, index)
  \/ \E index \in 0..Len(leafs) : Remove(index)

Spec ==
  Init /\ [][Next]_vars

tree_vars ==
  <<leafs, nodes, height, zero_index, built, panicked, ops, last, pre, trip, undo>>

(* ------------------- MimcSponge (src/src/mimc_sponge.rs) -------------- *)

\* AddAssign on Fr
fr_add(a, b) ==
  (a + b) % ScaledModulus

fr_mul(a, b) ==
  (a * b) % ScaledModulus

\* Fr::pow([5]): square, square, multiply
fr_pow5(t) ==
  fr_mul(fr_mul(fr_mul(t, t), fr_mul(t, t)), t)

\* the for loop of hash from round i on, every round swapping the branches
RECURSIVE hash_loop_always_swap(_, _, _, _, _)
hash_loop_always_swap(constants, i, xl, xr, k) ==
  IF i >= Len(constants)
    THEN <<xl, xr>>
    ELSE LET t_base == fr_add(fr_add(0, xl), k)
             t_round == IF i > 0 THEN fr_add(t_base, At(constants, i)) ELSE t_base
             xr_tmp == fr_add(xr, fr_pow5(t_round))
         IN  hash_loop_always_swap(constants, i + 1, xr_tmp, xl, k)

\* the for loop of hash from round i on
RECURSIVE hash_loop(_, _, _, _, _)
hash_loop(constants, i, xl, xr, k) ==
  IF i >= Len(constants)
    THEN <<xl, xr>>
    ELSE LET last_index == Len(constants) - 1
             t_base == fr_add(fr_add(0, xl), k)
             t_round == IF i > 0 THEN fr_add(t_base, At(constants, i)) ELSE t_base
             xr_tmp == fr_add(xr, fr_pow5(t_round))
         IN  IF i < last_index
               THEN hash_loop(constants, i + 1, xr_tmp, xl, k)
               ELSE hash_loop(constants, i + 1, xl, xr_tmp, k)

\* hash that swaps the branches in the last round as well
hash_swaps_every_round(constants, xl, xr, k) ==
  hash_loop_always_swap(constants, 0, xl, xr, k)

\* MimcSponge::hash; constants is self.constants
hash(constants, xl, xr, k) ==
  hash_loop(constants, 0, xl, xr, k)

\* the absorbing loop of multi_hash from element i on, state <<r, c>>
RECURSIVE absorb(_, _, _, _, _)
absorb(constants, arr, i, state, key) ==
  IF i >= Len(arr)
    THEN state
    ELSE absorb(constants, arr, i + 1,
                hash(constants, fr_add(state[1], At(arr, i)), state[2], key), key)

\* the squeezing loop of multi_hash, steps iterations left
RECURSIVE squeeze(_, _, _, _, _)
squeeze(constants, out, steps, state, key) ==
  IF steps <= 0
    THEN out
    ELSE LET next_state == hash(constants, state[1], state[2], key)
         IN  squeeze(constants, Append(out, next_state[1]), steps - 1, next_state, key)

\* multi_hash that stores each element in r instead of adding it
multi_hash_overwrites_r(constants, arr, key, num_outputs) ==
  LET state == IF Len(arr) = 0
                 THEN <<0, 0>>
                 ELSE hash(constants, arr[Len(arr)],
                           absorb(constants, SubSeq(arr, 1, Len(arr) - 1), 0,
                                  <<0, 0>>, key)[2], key)
  IN  squeeze(constants, <<state[1]>>, num_outputs - 1, state, key)

\* MimcSponge::multi_hash; constants is self.constants
multi_hash(constants, arr, key, num_outputs) ==
  LET state == absorb(constants, arr, 0, <<0, 0>>, key)
  IN  squeeze(constants, <<state[1]>>, num_outputs - 1, state, key)

Fr ==
  0..(ScaledModulus - 1)

\* the tables of round constants a sponge is made with
RoundConstants ==
  {0, 1, ScaledModulus - 1}

ConstantTables ==
  UNION {[1..n -> RoundConstants] : n \in 1..MaxRounds}

\* the arrays and keys handed to multi_hash
AbsorbedInputs ==
  UNION {[1..n -> RoundConstants] : n \in 0..MaxAbsorbed}

Keys ==
  {0, 1}

\* one call of hash on a sponge made with some table of constants
Hash ==
  /\ fn.op = "none"
  /\ \E constants \in ConstantTables, xl \in Fr, xr \in Fr, k \in Fr :
       fn' = FnCall("hash", <<constants, xl, xr, k>>, hash(constants, xl, xr, k))
  /\ UNCHANGED tree_vars

\* one call of multi_hash on a sponge made with some table of constants
MultiHash ==
  /\ fn.op = "none"
  /\ \E constants \in ConstantTables, arr \in AbsorbedInputs, key \in Keys,
        num_outputs \in 0..MaxOutputs :
       fn' = FnCall("multi_hash", <<constants, arr, key, num_outputs>>,
                    multi_hash(constants, arr, key, num_outputs))
  /\ UNCHANGED tree_vars

NextMimc ==
  Hash \/ MultiHash

SpecMimc ==
  Init /\ [][NextMimc]_vars

(* ----------------------- build_parent on its own ---------------------- *)

\* the sums handed to build_parent: both ends of the i32 range, their
\* neighbours, and small values of either sign
NodeValues ==
  {I32_MIN, I32_MIN + 1, -2, -1, 0, 1, 2, I32_MAX - 1, I32_MAX}

NodeInputs ==
  {Node(id_hash(id), v) : id \in {"a", "b"}, v \in NodeValues}

BuildParent(child_1, child_2) ==
  /\ fn' = FnCall("build_parent", <<child_1, child_2>>, build_parent(child_1, child_2))
  /\ UNCHANGED tree_vars

NextBuildParent ==
  \E child_1 \in NodeInputs, child_2 \in NodeInputs : BuildParent(child_1, child_2)

SpecBuildParent ==
  Init /\ [][NextBuildParent]_vars

(* ------------------------- notions of the claims ---------------------- *)

Mutators ==
  {"push", "set_leaf", "remove"}

Errors ==
  {"OverflowError", "IndexOutOfBounds", "HashError"}

\* a tree exists and the process has not aborted
Live ==
  built /\ ~panicked

Returned(op) ==
  Live /\ last.op = op /\ last.res = "ok"

Positions(t) ==
  0..(Len(t.leafs) - 1)

ZeroPositions(t) ==
  {i \in Positions(t) : is_none(At(t.leafs, i))}

StrictlyIncreasing(s) ==
  \A j \in 1..(Len(s) - 1) : s[j] < s[j + 1]

IsPowerOfTwo(n) ==
  \E k \in 0..30 : n = 2 ^ k

\* i32 addition modulo 2^32
wrapping_add(a, b) ==
  IF b > 0 /\ a > I32_MAX - b THEN (a - I32_MAX - 1) + (b - I32_MAX - 1)
  ELSE IF b < 0 /\ a < I32_MIN - b THEN (a + I32_MAX + 1) + (b + I32_MAX + 1)
  ELSE a + b

RECURSIVE LeafSumFrom(_, _)
LeafSumFrom(ls, k) ==
  IF k > Len(ls) THEN 0 ELSE wrapping_add(ls[k].node.value, LeafSumFrom(ls, k + 1))

LeafSum(t) ==
  LeafSumFrom(t.leafs, 1)

\* the flat indices of the internal nodes of a level-major array of n nodes
\* over (n + 1) / 2 leaves, each with the flat index of its left child
RECURSIVE ParentsFrom(_, _, _)
ParentsFrom(level_start, level_size, n) ==
  IF level_size < 2 \/ level_start + level_size >= n
    THEN {}
    ELSE {[q |-> level_start + level_size + j, l |-> level_start + 2 * j] :
            j \in {j \in 0..(level_size \div 2 - 1) :
                     level_start + level_size + j < n}}
         \cup ParentsFrom(level_start + level_size, level_size \div 2, n)

Parents(t) ==
  ParentsFrom(0, (Len(t.nodes) + 1) \div 2, Len(t.nodes))

ParentConsistent(t) ==
  \A p \in Parents(t) :
    LET b == build_parent(At(t.nodes, p.l), At(t.nodes, p.l + 1))
    IN  b.res = "ok" /\ At(t.nodes, p.q) = b.node

(* ------------------------------- claims ------------------------------- *)

\* C1: a push, set_leaf or remove that returns Overflow, IndexOutOfBounds or
\* HashError leaves leafs, nodes, height and zero_index exactly as they were
\* before the call.
C1_AtomicOnError ==
  (built /\ last.op \in Mutators /\ last.res \in Errors) => Tree = pre

\* C2: in every tree state zero_index is strictly increasing and is exactly
\* the set of positions holding the zero-leaf.
C2_ZeroIndexExact ==
  Live => /\ StrictlyIncreasing(zero_index)
          /\ {zero_index[j] : j \in DOMAIN zero_index} = ZeroPositions(Tree)

\* C3: in every tree state each internal node of the flat array equals
\* build_parent of its two children as currently stored.
C3_ParentsConsistent ==
  Live => ParentConsistent(Tree)

\* C4: in every tree state the number of leafs is a power of two and the
\* number of nodes is 2 * |leafs| - 1.
C4_Shape ==
  Live => IsPowerOfTwo(Len(leafs)) /\ Len(nodes) = 2 * Len(leafs) - 1

\* C5: in every tree state get_root_sum is the sum of the values of the
\* leafs currently stored.
C5_RootSum ==
  Live => get_root_sum(Tree) = [res |-> "ok", value |-> LeafSum(Tree)]

\* C6: in every tree state, for every index below the number of leafs,
\* get_proof succeeds and verify_proof of that proof returns true.
C6_ProofRoundTrip ==
  Live => \A i \in Positions(Tree) :
            LET g == get_proof(Tree, i)
            IN  g.res = "ok"
                /\ verify_proof(Tree, g.proof) = [res |-> "ok", valid |-> TRUE]

(* tampering with a proof: one field of the leaf or of one path entry changed *)

IdCandidates ==
  {l.id : l \in LeafUniverse} \cup {"u9"}

HashCandidates(t) ==
  {l.node.hash : l \in LeafUniverse} \cup {t.nodes[k].hash : k \in DOMAIN t.nodes}

ValueCandidates(t) ==
  {l.node.value : l \in LeafUniverse} \cup {t.nodes[k].value : k \in DOMAIN t.nodes}

LeafIdTampers(p) ==
  {[p EXCEPT !.leaf.id = id] : id \in IdCandidates \ {p.leaf.id}}

LeafNodeTampers(p, t) ==
  {[p EXCEPT !.leaf.node.hash = h] : h \in HashCandidates(t) \ {p.leaf.node.hash}}
  \cup {[p EXCEPT !.leaf.node.value = v] :
          v \in ValueCandidates(t) \ {p.leaf.node.value}}

NeighborNodeTampers(p, t) ==
  UNION {{[p EXCEPT !.path[k].node.hash = h] :
            h \in HashCandidates(t) \ {p.path[k].node.hash}}
         \cup {[p EXCEPT !.path[k].node.value = v] :
                 v \in ValueCandidates(t) \ {p.path[k].node.value}} :
         k \in DOMAIN p.path}

FlipPosition(p, k) ==
  [p EXCEPT !.path[k].position = IF @ = "Right" THEN "Left" ELSE "Right"]

PositionTampers(p) ==
  {FlipPosition(p, k) : k \in DOMAIN p.path}

Accepted(t, p) ==
  verify_proof(t, p) = [res |-> "ok", valid |-> TRUE]

Rejected(t, p) ==
  verify_proof(t, p) = [res |-> "ok", valid |-> FALSE]

\* the proofs get_proof hands out on t that verify_proof accepts
ValidProofs(t) ==
  {g.proof : g \in {g \in {get_proof(t, i) : i \in Positions(t)} :
                      g.res = "ok" /\ Accepted(t, g.proof)}}

\* the node verify_proof has folded before it reaches path entry k
FoldedBefore(p, k) ==
  fold_path(p.leaf.node, SubSeq(p.path, 1, k - 1), 1).node

\* C7 (as stated): for a valid proof of get_proof, changing the leaf's id,
\* hash or value, or a path entry's position, hash or value, makes
\* verify_proof return false.
C7_AnyTamperReturnsFalse ==
  Live => \A p \in ValidProofs(Tree) :
            \A q \in LeafIdTampers(p) \cup LeafNodeTampers(p, Tree)
                     \cup NeighborNodeTampers(p, Tree) \cup PositionTampers(p) :
              Rejected(Tree, q)

\* C7 (amended): for a valid proof of get_proof, changing the hash or value
\* of the leaf's node or of a path entry's node makes verify_proof not return
\* true (it returns false or an error); swapping a path entry's position does
\* so exactly when that entry's node differs from the node folded so far.
C7_NodeTamperNotAccepted ==
  Live => \A p \in ValidProofs(Tree) :
            /\ \A q \in LeafNodeTampers(p, Tree) \cup NeighborNodeTampers(p, Tree) :
                 ~Accepted(Tree, q)
            /\ \A k \in DOMAIN p.path :
                 Accepted(Tree, FlipPosition(p, k))
                   <=> (p.path[k].node = FoldedBefore(p, k))

\* a valid two-step proof whose tampered copies are refused with false, refused
\* with an error, and, with a position swapped, once refused and once accepted
C7_Witness ==
  /\ Live
  /\ \E p \in ValidProofs(Tree) :
       /\ Len(p.path) = 2
       /\ \E q \in LeafNodeTampers(p, Tree) : Rejected(Tree, q)
       /\ \E q \in NeighborNodeTampers(p, Tree) : Rejected(Tree, q)
       /\ \E q \in NeighborNodeTampers(p, Tree) :
            verify_proof(Tree, q).res = "OverflowError"
       /\ \E k \in DOMAIN p.path : Rejected(Tree, FlipPosition(p, k))
       /\ \E k \in DOMAIN p.path : Accepted(Tree, FlipPosition(p, k))

\* C8: a successful push returning k stores the leaf at leafs[k]; slot k did
\* not exist before or held the zero-leaf; every other leaf is unchanged.
C8_PushNeverOverwrites ==
  Returned("push") =>
    /\ last.ret < Len(leafs)
    /\ At(leafs, last.ret) = last.leaf
    /\ (last.ret >= Len(pre.leafs) \/ is_none(At(pre.leafs, last.ret)))
    /\ \A j \in Positions(pre) \ {last.ret} : At(leafs, j) = At(pre.leafs, j)

\* C9: with zero_index empty, a successful push returns the pre-push number of
\* leafs, places the leaf there, and leaves the tree new() builds from the old
\* leafs followed by the new one; capacity doubles and height grows by one.
C9_PushRebuilds ==
  (Returned("push") /\ pre.zero_index = <<>>) =>
    /\ last.ret = Len(pre.leafs)
    /\ At(leafs, last.ret) = last.leaf
    /\ create_tree(Append(pre.leafs, last.leaf)) = [res |-> "ok", tree |-> Tree]
    /\ Len(leafs) = 2 * Len(pre.leafs)
    /\ height = pre.height + 1

\* C10: remove(i) followed by set_leaf(old_leaf, i), both succeeding, leaves
\* the root (hash and sum) that the tree had before the remove.
C10_RemoveThenSetRestoresRoot ==
  (Live /\ trip.stage = "restored" /\ last.res = "ok") => get_root(Tree) = trip.root

(* undoing a push: push(leaf) returning k, then remove(k) *)

\* the push stored its leaf in a slot that existed and held the zero-leaf
PushedIntoZeroSlot(u) ==
  u.index < Len(u.tree.leafs) /\ is_none(At(u.tree.leafs, u.index))

\* the push found no free slot and rebuilt the tree
PushRebuilt(u) ==
  u.tree.zero_index = <<>>

\* ls followed by zero-leaves up to n leafs
Padded(ls, n) ==
  ls \o [k \in 1..(n - Len(ls)) |-> empty_leaf]

\* C11: push returning k then remove(k), both succeeding, leaves the pre-push
\* root (hash and sum) exactly when the push landed in a slot that held the
\* zero-leaf; after a push that rebuilt, the tree keeps its new capacity and
\* its root is the root of new() on the pre-push leafs padded with zero-leaves
\* to that capacity.
C11_PushThenRemove ==
  (Live /\ undo.stage = "removed" /\ last.res = "ok") =>
    /\ (get_root(Tree) = get_root(undo.tree)) <=> PushedIntoZeroSlot(undo)
    /\ PushRebuilt(undo) =>
         /\ Len(leafs) = Len(pre.leafs)
         /\ Len(leafs) > Len(undo.tree.leafs)
         /\ get_root(Tree)
              = get_root(create_tree(Padded(undo.tree.leafs, Len(leafs))).tree)

\* the tree new() builds from two leaves, neither the zero-leaf
TwoNonZeroLeafs(t) ==
  /\ Len(t.leafs) = 2
  /\ ZeroPositions(t) = {}

\* the first call on a fresh tree of two non-zero leaves was a push that
\* succeeded
FirstPushOnPair ==
  Live /\ undo.stage = "pushed" /\ ops = 1 /\ TwoNonZeroLeafs(undo.tree)

\* ... and the second call was the remove of the returned index, which succeeded
FirstPushOnPairRemoved ==
  /\ Live
  /\ undo.stage = "removed"
  /\ ops = 2
  /\ last.res = "ok"
  /\ TwoNonZeroLeafs(undo.tree)

\* C12 (as stated): on a tree built from two non-zero leaves, push of a third
\* leaf returns 2 and raises root_sum by the leaf's value; remove(2) then
\* returns root_sum and the root hash to their pre-push values.
C12_RemoveRestoresSumAndHash ==
  /\ FirstPushOnPair =>
       /\ undo.index = 2
       /\ get_root_sum(Tree).value
            = get_root_sum(undo.tree).value + last.leaf.node.value
  /\ FirstPushOnPairRemoved =>
       /\ get_root_sum(Tree) = get_root_sum(undo.tree)
       /\ get_root_hash(Tree) = get_root_hash(undo.tree)

\* C12 (amended): on a tree built from two non-zero leaves, a successful push
\* of a third leaf returns 2 and raises root_sum by the leaf's value;
\* remove(2) then returns root_sum to its pre-push value, and the root is the
\* root of new() on the two leaves followed by two zero-leaves.
C12_RemoveRestoresSum ==
  /\ FirstPushOnPair =>
       /\ undo.index = 2
       /\ get_root_sum(Tree).value
            = get_root_sum(undo.tree).value + last.leaf.node.value
  /\ FirstPushOnPairRemoved =>
       /\ get_root_sum(Tree) = get_root_sum(undo.tree)
       /\ get_root(Tree) = get_root(create_tree(Padded(undo.tree.leafs, 4)).tree)
       /\ get_root(Tree).res = "ok"

\* a non-zero third leaf was pushed onto the pair and removed again
C12_Witness ==
  /\ FirstPushOnPairRemoved
  /\ ~is_none(At(pre.leafs, 2))
  /\ get_root_sum(pre).value = get_root_sum(undo.tree).value + 1
  /\ get_root_sum(Tree) = get_root_sum(undo.tree)
  /\ get_root_hash(Tree) # get_root_hash(undo.tree)

\* C13: new([]) returns InvalidTree and builds no tree; no tree state has zero
\* nodes, and get_root, get_root_hash and get_root_sum do not return EmptyTree
\* there.
C13_EmptyInputRejected ==
  /\ (last.op = "new" /\ last.input = <<>>) =>
       /\ last.res = "InvalidTree"
       /\ ~built
       /\ Tree = NoTree
  /\ Live =>
       /\ Len(nodes) > 0
       /\ get_root(Tree).res = "ok"
       /\ get_root_hash(Tree).res = "ok"
       /\ get_root_sum(Tree).res = "ok"

\* new was called with the empty list and refused it
C13_Witness ==
  /\ last.op = "new"
  /\ last.input = <<>>
  /\ last.res = "InvalidTree"
  /\ ~built

\* indices at and beyond the end of a container of n elements
BeyondEnd(n) ==
  {n, n + 1, n + 10}

IndexOutOfBounds(t) ==
  {[res |-> "IndexOutOfBounds", tree |-> t]}

\* C14: in every tree state get_proof, get_leaf, set_leaf and remove with an
\* index >= |leafs|, and get_node with an index >= |nodes|, return
\* IndexOutOfBounds, and the tree is as it was before the call.
C14_OutOfBoundsRefused ==
  /\ Live =>
       /\ \A index \in BeyondEnd(Len(leafs)) :
            /\ get_proof(Tree, index).res = "IndexOutOfBounds"
            /\ get_leaf(Tree, index).res = "IndexOutOfBounds"
            /\ remove(Tree, index) = IndexOutOfBounds(Tree)
            /\ \A leaf \in UpdateLeafs :
                 set_leaf(Tree, leaf, index) = IndexOutOfBounds(Tree)
       /\ \A index \in BeyondEnd(Len(nodes)) :
            get_node(Tree, index).res = "IndexOutOfBounds"
  /\ (built /\ last.op \in {"set_leaf", "remove"} /\ last.index >= Len(pre.leafs)) =>
       /\ last.res = "IndexOutOfBounds"
       /\ Tree = pre

\* set_leaf with a non-zero leaf and remove were each refused at index |leafs|
\* of a four-leaf tree
C14_Witness ==
  /\ Live
  /\ Len(pre.leafs) = 4
  /\ last.op \in {"set_leaf", "remove"}
  /\ last.index = Len(pre.leafs)
  /\ last.res = "IndexOutOfBounds"
  /\ Tree = pre

\* a + b lies in the signed 32-bit range
SumFitsI32(a, b) ==
  ~((b > 0 /\ a > I32_MAX - b) \/ (b < 0 /\ a < I32_MIN - b))

\* C15: build_parent(L, R) returns Overflow whenever L.value + R.value is
\* outside the signed 32-bit range, whatever the signs; otherwise HashError if
\* either value is negative; otherwise a node whose value is exactly
\* L.value + R.value, so no value it produces has wrapped.
C15_BuildParentContract ==
  fn.op = "build_parent" =>
    LET a == fn.args[1].value
        b == fn.args[2].value
    IN  /\ ~SumFitsI32(a, b) => fn.out.res = "OverflowError"
        /\ (SumFitsI32(a, b) /\ (a < 0 \/ b < 0)) => fn.out.res = "HashError"
        /\ (SumFitsI32(a, b) /\ a >= 0 /\ b >= 0) =>
             /\ fn.out.res = "ok"
             /\ fn.out.node.value = a + b
             /\ fn.out.node.value \in 0..I32_MAX

\* two negative values whose sum underflows: Overflow, not HashError
C15_Witness ==
  /\ fn.op = "build_parent"
  /\ fn.args[1].value = -1
  /\ fn.args[2].value = I32_MIN
  /\ fn.out.res = "OverflowError"

\* C16: new on a single leaf succeeds whatever the leaf's value, with
\* height 1, nodes = [leaf.node] and root = leaf.node; get_proof(0) on that
\* tree returns an empty path and verify_proof of it returns true.
C16_SingleLeafTree ==
  (last.op = "new" /\ Len(last.input) = 1) =>
    /\ last.res = "ok"
    /\ built
    /\ height = 1
    /\ leafs = last.input
    /\ nodes = <<last.input[1].node>>
    /\ get_root(Tree) = [res |-> "ok", node |-> last.input[1].node]
    /\ get_proof(Tree, 0)
         = [res |-> "ok", proof |-> [leaf |-> last.input[1], path |-> <<>>]]
    /\ verify_proof(Tree, get_proof(Tree, 0).proof) = [res |-> "ok", valid |-> TRUE]

\* new was given one leaf of negative value and built the tree
C16_Witness ==
  /\ last.op = "new"
  /\ last.input = <<LeafNew("u3", -1)>>
  /\ built
  /\ height = 1

(* the sponge as the reference describes it, round by round *)

\* the fifth power taken in round i on the left branch xL
RoundPower(C, i, xL, k) ==
  ((xL + k + (IF i > 0 THEN C[i + 1] ELSE 0)) ^ 5) % ScaledModulus

\* the branches <<xL, xR>> after rounds 0..i of the reference permutation
RECURSIVE BranchesAfter(_, _, _, _, _)
BranchesAfter(C, i, xL, xR, k) ==
  LET before == IF i = 0 THEN <<xL, xR>> ELSE BranchesAfter(C, i - 1, xL, xR, k)
      tmp == (before[2] + RoundPower(C, i, before[1], k)) % ScaledModulus
  IN  IF i < Len(C) - 1 THEN <<tmp, before[1]>> ELSE <<before[1], tmp>>

Permutation(C, xL, xR, k) ==
  BranchesAfter(C, Len(C) - 1, xL, xR, k)

\* C17: hash(xL, xR, k) runs one round per round constant; round i takes
\* t = (xL + k, plus C[i] only when i > 0)^5 and tmp = xR + t, then swaps the
\* branches (xR := xL, xL := tmp) except in the last round, where only
\* xR := tmp; its result is that of the reference round function.
C17_HashIsReferencePermutation ==
  fn.op = "hash" =>
    fn.out = Permutation(fn.args[1], fn.args[2], fn.args[3], fn.args[4])

\* three rounds over a table whose first constant is not zero, on branches
\* and key that are not zero
C17_Witness ==
  /\ fn.op = "hash"
  /\ Len(fn.args[1]) = 3
  /\ fn.args[1][1] # 0
  /\ fn.args[2] # 0
  /\ fn.args[3] # 0
  /\ fn.args[4] # 0
  /\ fn.out = Permutation(fn.args[1], fn.args[2], fn.args[3], fn.args[4])

\* the sponge state <<r, c>> after absorbing the first n elements of arr
RECURSIVE Absorbed(_, _, _, _)
Absorbed(C, arr, n, key) ==
  IF n = 0
    THEN <<0, 0>>
    ELSE LET before == Absorbed(C, arr, n - 1, key)
         IN  Permutation(C, (before[1] + arr[n]) % ScaledModulus, before[2], key)

\* the sponge state from which output j (counted from 1) is read
RECURSIVE Squeezed(_, _, _, _)
Squeezed(C, arr, j, key) ==
  IF j = 1
    THEN Absorbed(C, arr, Len(arr), key)
    ELSE LET before == Squeezed(C, arr, j - 1, key)
         IN  Permutation(C, before[1], before[2], key)

\* C18: multi_hash(arr, key, n_out) starts from r = c = 0, adds each element
\* in order to r and applies hash(r, c, key), outputs r, and applies hash
\* again before each further output; for n_out >= 1 it returns exactly n_out
\* elements.
C18_MultiHashIsSponge ==
  (fn.op = "multi_hash" /\ fn.args[4] >= 1) =>
    /\ Len(fn.out) = fn.args[4]
    /\ fn.out # <<>>
    /\ \A j \in 1..fn.args[4] :
         fn.out[j] = Squeezed(fn.args[1], fn.args[2], j, fn.args[3])[1]

\* two elements absorbed and two outputs squeezed, under a key that is not zero
C18_Witness ==
  /\ fn.op = "multi_hash"
  /\ Len(fn.args[2]) = 2
  /\ fn.args[2][1] # 0
  /\ fn.args[2][2] # 0
  /\ fn.args[3] # 0
  /\ fn.args[4] = 2
  /\ Len(fn.out) = 2

\* C19: new on n >= 1 leaves yields a tree whose number of leafs P is the
\* smallest power of two >= n, the inputs in order first and zero-leaves in
\* the remaining P - n places, and whose height is 1 + log2(P);
\* height = 1 + log2(|leafs|) then holds in every tree state.
C19_PaddedToPowerOfTwo ==
  /\ (last.op = "new" /\ last.res = "ok") =>
       LET n == Len(last.input)
           P == Len(leafs)
       IN  /\ n >= 1
           /\ IsPowerOfTwo(P)
           /\ P >= n
           /\ P = 1 \/ P \div 2 < n
           /\ SubSeq(leafs, 1, n) = last.input
           /\ \A j \in (n + 1)..P : leafs[j] = empty_leaf
           /\ 2 ^ (height - 1) = P
  /\ Live => 2 ^ (height - 1) = Len(leafs)

(* the path of a proof, level by level *)

\* flat index of the first node of a level, over P leaves
LevelStart(P, level) ==
  IF level = 0 THEN 0 ELSE 2 * P - P \div 2 ^ (level - 1)

\* in-level index of the ancestor of leaf i at a level
AncestorIndex(i, level) ==
  i \div 2 ^ level

\* in-level index of the other child of the same parent
SiblingOf(level_index) ==
  IF level_index % 2 = 0 THEN level_index + 1 ELSE level_index - 1

\* C20: get_proof(i), i < |leafs|, returns leafs[i] and a path of exactly
\* height - 1 neighbors; the k-th is the stored sibling of the level-k
\* ancestor of leaf i, tagged Right when the ancestor's in-level index is
\* even and Left when it is odd (the parity of the flat index the code tests
\* picks that same sibling).
C20_ProofPathIsSiblings ==
  Live => \A i \in Positions(Tree) :
            LET g == get_proof(Tree, i)
            IN  /\ g.res = "ok"
                /\ g.proof.leaf = At(leafs, i)
                /\ Len(g.proof.path) = height - 1
                /\ \A k \in 1..(height - 1) :
                     LET a == AncestorIndex(i, k - 1)
                         flat == LevelStart(Len(leafs), k - 1) + SiblingOf(a)
                     IN  /\ flat < Len(nodes)
                         /\ g.proof.path[k].node = At(nodes, flat)
                         /\ g.proof.path[k].position
                              = IF a % 2 = 0 THEN "Right" ELSE "Left"

\* zero_index of t is sorted, duplicate-free and lists exactly the zero-leaves
ZeroIndexExact(t) ==
  /\ StrictlyIncreasing(t.zero_index)
  /\ {t.zero_index[j] : j \in DOMAIN t.zero_index} = ZeroPositions(t)

\* s without its elements equal to x, in order
Without(s, x) ==
  SelectSeq(s, LAMBDA y : y # x)

\* C21: a leaf is the zero-leaf exactly when its id is "0" and its value 0.
\* On a tree whose zero_index is sorted, duplicate-free and equal to the set
\* of zero-leaf positions, a successful set_leaf(leaf, i) keeps it so: i is
\* inserted in sorted position when a zero-leaf replaces a non-zero leaf,
\* removed when a non-zero leaf replaces a zero-leaf, and zero_index is
\* unchanged otherwise.
C21_SetLeafKeepsZeroIndex ==
  /\ \A id \in {"0", "u1"}, value \in {0, 1} :
       is_none(LeafNew(id, value)) <=> (id = "0" /\ value = 0)
  /\ (Live /\ last.op = "set_leaf" /\ last.res = "ok" /\ ZeroIndexExact(pre)) =>
       LET was_zero == is_none(At(pre.leafs, last.index))
           now_zero == is_none(last.leaf)
       IN  /\ ZeroIndexExact(Tree)
           /\ (now_zero /\ ~was_zero) =>
                /\ Len(zero_index) = Len(pre.zero_index) + 1
                /\ Without(zero_index, last.index) = pre.zero_index
           /\ (~now_zero /\ was_zero) =>
                zero_index = Without(pre.zero_index, last.index)
           /\ (now_zero <=> was_zero) => zero_index = pre.zero_index

\* a zero-leaf was set where a non-zero leaf stood, below a position that was
\* already free: the index went in front of the other
C21_Witness ==
  /\ Live
  /\ last.op = "set_leaf"
  /\ last.res = "ok"
  /\ ZeroIndexExact(pre)
  /\ pre.zero_index # <<>>
  /\ is_none(last.leaf)
  /\ ~is_none(At(pre.leafs, last.index))
  /\ last.index < pre.zero_index[1]
  /\ zero_index = <<last.index>> \o pre.zero_index

\* C22: on a tree whose internal nodes all equal build_parent of their
\* children, a successful set_leaf(leaf, i) leaves exactly the nodes array that
\* new() builds from the updated leafs.
C22_UpdateAgreesWithRebuild ==
  (Live /\ last.op = "set_leaf" /\ last.res = "ok" /\ ParentConsistent(pre)) =>
    LET rebuilt == create_tree(leafs)
    IN  /\ rebuilt.res = "ok"
        /\ rebuilt.tree.nodes = nodes

\* flat indices of leaf i's node and of its height - 1 ancestors, one per
\* level up to the root, in the level-major array of a tree of t's height
PathPositions(t, i) ==
  {LevelStart(2 ^ (t.height - 1), level) + AncestorIndex(i, level) :
     level \in 0..(t.height - 1)}

\* C23: a successful set_leaf(leaf, i) or remove(i) changes only leafs[i],
\* nodes[i] and the height - 1 ancestors of leaf i in nodes; every other
\* leaf and node, the height and the number of leafs are unchanged.
C23_SetLeafFrame ==
  (Live /\ last.op \in {"set_leaf", "remove"} /\ last.res = "ok") =>
    /\ height = pre.height
    /\ Len(leafs) = Len(pre.leafs)
    /\ Len(nodes) = Len(pre.nodes)
    /\ \A j \in Positions(pre) \ {last.index} : At(leafs, j) = At(pre.leafs, j)
    /\ \A q \in 0..(Len(nodes) - 1) :
         q \notin PathPositions(pre, last.index) => At(nodes, q) = At(pre.nodes, q)

\* a non-zero leaf was set in a three-level tree: its node, one node of the
\* middle level and the root changed, the four other nodes did not
C23_Witness ==
  /\ Live
  /\ last.op = "set_leaf"
  /\ last.res = "ok"
  /\ height = 3
  /\ Len(nodes) = 7
  /\ Cardinality({q \in 0..6 : At(nodes, q) # At(pre.nodes, q)}) = 3
  /\ At(leafs, last.index) # At(pre.leafs, last.index)

\* C24: storage is never reclaimed: no push, set_leaf or remove lowers the
\* number of leafs or the height; remove(i) has exactly the effect of
\* set_leaf(zero_leaf, i) and, when it succeeds, leaves a zero-leaf at
\* position i of a tree of the same size.
C24_StorageNeverReclaimed ==
  /\ (built /\ last.op \in Mutators) =>
       /\ Len(leafs) >= Len(pre.leafs)
       /\ Len(nodes) >= Len(pre.nodes)
       /\ height >= pre.height
  /\ (built /\ last.op = "remove") =>
       /\ [res |-> last.res, tree |-> Tree] \in set_leaf(pre, empty_leaf, last.index)
       /\ last.res = "ok" =>
            /\ is_none(At(leafs, last.index))
            /\ Len(leafs) = Len(pre.leafs)
            /\ height = pre.height

\* a non-zero leaf of a four-leaf tree was removed
C24_Witness ==
  /\ Live
  /\ last.op = "remove"
  /\ last.res = "ok"
  /\ Len(pre.leafs) = 4
  /\ ~is_none(At(pre.leafs, last.index))
  /\ is_none(At(leafs, last.index))
  /\ Len(leafs) = 4

\* a tree of which only the root is known
RootOnly(root) ==
  MkTree(<<>>, <<root>>, 1, <<>>)

\* the proofs get_proof hands out on t
ProofsOf(t) ==
  {g.proof : g \in {g \in {get_proof(t, i) : i \in Positions(t)} : g.res = "ok"}}

\* C25: verify_proof depends only on the proof's leaf node, the proof's path
\* and the tree's root: trees with the same root (hash and sum) give the same
\* result for every proof, and the result is true exactly when the node
\* folded from the proof equals the root in hash and in value.
C25_VerifyDependsOnRootOnly ==
  Live =>
    LET root == get_root(Tree)
    IN  \A p \in ProofsOf(Tree) \cup ProofsOf(pre) :
          LET v == verify_proof(Tree, p)
              folded == fold_path(p.leaf.node, p.path, 1)
          IN  /\ v = verify_proof(RootOnly(root.node), p)
              /\ get_root(pre) = root => v = verify_proof(pre, p)
              /\ v = verify_proof(Tree, [p EXCEPT !.leaf.id = "u9"])
              /\ (v.res = "ok" /\ v.valid)
                   <=> /\ folded.res = "ok"
                       /\ folded.node.hash = root.node.hash
                       /\ folded.node.value = root.node.value

\* two trees with different nodes and the same root, and proofs of the
\* earlier one that the later one accepts, refuses, and cannot fold
C25_Witness ==
  /\ Live
  /\ get_root(pre) = get_root(Tree)
  /\ pre.nodes # nodes
  /\ \E p \in ProofsOf(pre) : Accepted(Tree, p) /\ Accepted(pre, p)
  /\ \E p \in ProofsOf(Tree) : ~Accepted(Tree, p) /\ ~Accepted(pre, p)

\* C26: no sequence of public operations, failed calls included, reaches an
\* out-of-range access to leafs, nodes or zero_index: every failure comes back
\* to the caller as an error value and the process does not abort.
C26_NoOutOfRangeAccess ==
  /\ ~panicked
  /\ last.res # "panic"

====
